---- MODULE Spec2Model ----
(***************************************************************************)
(* The Bananagrams scorer: grid reconstruction, word extraction, scoring  *)
(* and the live-view loop (src/scorer.js, the live-view version, lines     *)
(* 500-877), and the cumulative single-line scanner (src/unnamed/part_002).*)
(*                                                                         *)
(* Modelling conventions                                                   *)
(*  - a grid key `${x},${y}` is the pair <<x, y>>: the string is built     *)
(*    from two integers and split(',').map(Number) recovers exactly them,  *)
(*    so a key and its pair determine each other;                          *)
(*  - a word is the sequence of its letters, a path the sequence of keys;  *)
(*  - a JS Map is a function (grid, letterMap) or, where its insertion     *)
(*    order is observable (uniqueWords), a sequence of entries;            *)
(*  - bbox coordinates are even integers, so centres are integers; lane   *)
(*    means are kept as exact fractions (numerator, denominator), so       *)
(*    floating-point rounding is outside the model.                        *)
(***************************************************************************)
EXTENDS Integers, Sequences, FiniteSets, TLC

VARIABLES
    symbols,      \* ocrData.symbols, the input of reconstructGrid
    medianHeight, \* reconstructGrid's medianHeight (0 before it is computed)
    xClusters,    \* the array `lanes` of findCoordinateLanes for the x centres
    yClusters,    \* the same for the y centres
    xLanes,       \* findCoordinateLanes' result for x: the means of xClusters
    yLanes,       \* the same for y
    allLetters,   \* reconstructGrid's allLetters
    grid,         \* reconstructGrid's grid: key -> letter
    letterMap,    \* reconstructGrid's letterMap: key -> glyph
    wordsData,    \* extractWordsFromGrid's result
    lastRecognizedWordsData, \* line 513, written at line 598
    dictionary,   \* line 523, filled by loadDictionary
    outputEl,     \* the lines of the results list, one [word, score] each
    totalScoreEl, \* the text of the total line
    resultsVisible, \* resultsPanel carries the class 'visible'
    currentState, \* line 511
    liveViewIntervalId, \* line 512; 0 stands for null, the ids count from 1
    activeIntervals, \* the interval timers set and not cleared
    jobs,         \* the runRecognition invocations waiting at line 591 for
                  \* their OCR job, oldest first; each is the id of the
                  \* interval whose tick started it
    debugCanvas,  \* the rectangles stroked on the debug canvas since it
                  \* was last cleared
    lastRecognizedBy, \* history: the id of the interval whose tick started
                  \* the pass that last assigned lastRecognizedWordsData;
                  \* 0 while it is the [] of line 513
    scannedWords, \* the single-line scanner (src/unnamed/part_002) line 18
    totalScore,   \* the same, line 19
    pc            \* "symbols" -> "grid" -> "words" -> "scored":
                  \* runRecognition 595, 596 and setState 552; in the
                  \* application "init" while initialize (526-531) has not
                  \* returned, then "app"

vars == <<symbols, medianHeight, xClusters, yClusters, xLanes, yLanes,
          allLetters, grid, letterMap, wordsData, lastRecognizedWordsData,
          dictionary, outputEl, totalScoreEl, resultsVisible,
          currentState, liveViewIntervalId, activeIntervals, jobs,
          debugCanvas, lastRecognizedBy, scannedWords, totalScore, pc>>

gridVars == <<medianHeight, xClusters, yClusters, xLanes, yLanes,
              allLetters, grid, letterMap>>

scoreVars == <<outputEl, totalScoreEl, resultsVisible>>

appVars == <<currentState, liveViewIntervalId, activeIntervals, jobs>>

scanVars == <<scannedWords, totalScore>>

recognitionVars == <<symbols, medianHeight, xClusters, yClusters, xLanes, yLanes,
                     allLetters, grid, letterMap, wordsData>>

(***************************************************************************)
(* Bounds of the model                                                     *)
(***************************************************************************)
\* grids given directly to extractWordsFromGrid have the columns 0..2 and
\* the rows 0..MaxCoord
MaxCoord == 2
\* and hold at most MaxCells letters
MaxCells == 5

Letters == {"A", "B"}

Columns == 0..2
Coords == 0..MaxCoord
Cells == Columns \X Coords

EmptyMap == [k \in {} |-> <<>>]

\* the value null where a list is expected: equal to no list
Null == [n \in {0} |-> "null"]

\* a text is the sequence of its characters; a grid holds one-letter texts
LetterTexts == {<<c>> : c \in Letters}

Grids == UNION {[S -> LetterTexts] : S \in {T \in SUBSET Cells : Cardinality(T) <= MaxCells}}

\* boards of the letters of CAT and ART: a row of three cells, and the row
\* crossed at its middle cell by a column of three
BoardTexts == {<<c>> : c \in {"C", "A", "R", "T"}}
RowCells == {<<0, 0>>, <<1, 0>>, <<2, 0>>}
CrossCells == RowCells \cup {<<1, 1>>, <<1, 2>>}
Boards == [RowCells -> BoardTexts] \cup [CrossCells -> BoardTexts]

(***************************************************************************)
(* Small helpers                                                           *)
(***************************************************************************)
SetMin(S) == CHOOSE m \in S : \A n \in S : m <= n
SetMax(S) == CHOOSE m \in S : \A n \in S : m >= n

(***************************************************************************)
(* extractWordsFromGrid, src/scorer.js 834-872                             *)
(***************************************************************************)
\* grid.has(`${x},${y}`)
GridHas(g, x, y) == <<x, y>> \in DOMAIN g

\* isConnected with the two directions exchanged
isConnected_Swapped(g, x, y, isHorizontal) ==
    IF isHorizontal
    THEN GridHas(g, x - 1, y) \/ GridHas(g, x + 1, y)
    ELSE GridHas(g, x, y - 1) \/ GridHas(g, x, y + 1)

\* line 840
isConnected(g, x, y, isHorizontal) ==
    IF isHorizontal
    THEN GridHas(g, x, y - 1) \/ GridHas(g, x, y + 1)
    ELSE GridHas(g, x - 1, y) \/ GridHas(g, x + 1, y)

\* a single letter taken for a word
LongEnough_One(currentWord) == Len(currentWord) > 0

\* lines 846, 854 and 864: currentWord.length > 1
LongEnough(currentWord) == Len(currentWord) > 1

\* lines 842-847: the inner loop of the horizontal pass over row y, from
\* column x on, with the accumulators currentWord, path, wordIsConnected;
\* the value is the list of records pushed to foundWordsData
RECURSIVE HorizontalRow(_, _, _, _, _, _, _)
HorizontalRow(g, y, x, maxX, currentWord, path, wordIsConnected) ==
    IF x > maxX + 1 THEN <<>>
    ELSE IF GridHas(g, x, y)
    THEN HorizontalRow(g, y, x + 1, maxX, currentWord \o g[<<x, y>>],
                       Append(path, <<x, y>>),
                       wordIsConnected \/ isConnected(g, x, y, TRUE))
    ELSE (IF LongEnough(currentWord) /\ wordIsConnected
          THEN <<[word |-> currentWord, path |-> path]>> ELSE <<>>)
         \o HorizontalRow(g, y, x + 1, maxX, <<>>, <<>>, FALSE)

\* lines 841-848: the horizontal pass, rows y..maxY
RECURSIVE HorizontalPass(_, _, _, _, _)
HorizontalPass(g, y, maxY, minX, maxX) ==
    IF y > maxY THEN <<>>
    ELSE HorizontalRow(g, y, minX, maxX, <<>>, <<>>, FALSE)
         \o HorizontalPass(g, y + 1, maxY, minX, maxX)

\* lines 850-855: the inner loop of the vertical pass over column x
RECURSIVE VerticalColumn(_, _, _, _, _, _, _)
VerticalColumn(g, x, y, maxY, currentWord, path, wordIsConnected) ==
    IF y > maxY + 1 THEN <<>>
    ELSE IF GridHas(g, x, y)
    THEN VerticalColumn(g, x, y + 1, maxY, currentWord \o g[<<x, y>>],
                        Append(path, <<x, y>>),
                        wordIsConnected \/ isConnected(g, x, y, FALSE))
    ELSE (IF LongEnough(currentWord) /\ wordIsConnected
          THEN <<[word |-> currentWord, path |-> path]>> ELSE <<>>)
         \o VerticalColumn(g, x, y + 1, maxY, <<>>, <<>>, FALSE)

\* lines 849-856: the vertical pass, columns x..maxX
RECURSIVE VerticalPass(_, _, _, _, _)
VerticalPass(g, x, maxX, minY, maxY) ==
    IF x > maxX THEN <<>>
    ELSE VerticalColumn(g, x, minY, maxY, <<>>, <<>>, FALSE)
         \o VerticalPass(g, x + 1, maxX, minY, maxY)

\* lines 860-865: the inner loop of the fallback scan over row y (no
\* connectivity test)
RECURSIVE FallbackRow(_, _, _, _, _, _)
FallbackRow(g, y, x, maxX, currentWord, path) ==
    IF x > maxX + 1 THEN <<>>
    ELSE IF GridHas(g, x, y)
    THEN FallbackRow(g, y, x + 1, maxX, currentWord \o g[<<x, y>>],
                     Append(path, <<x, y>>))
    ELSE (IF LongEnough(currentWord)
          THEN <<[word |-> currentWord, path |-> path]>> ELSE <<>>)
         \o FallbackRow(g, y, x + 1, maxX, <<>>, <<>>)

\* lines 859-866: the fallback loop over the rows y..maxY; it walks the
\* rows only
RECURSIVE FallbackRows(_, _, _, _, _)
FallbackRows(g, y, maxY, minX, maxX) ==
    IF y > maxY THEN <<>>
    ELSE FallbackRow(g, y, minX, maxX, <<>>, <<>>)
         \o FallbackRows(g, y + 1, maxY, minX, maxX)

\* a set that leaves an existing key alone
MapSet_KeepFirst(m, data) ==
    IF \E i \in 1..Len(m) : m[i].word = data.word THEN m ELSE Append(m, data)

\* Map.prototype.set on a Map kept as the sequence of its values in
\* insertion order, keyed by .word: an existing key keeps its position and
\* gets the new value, a new key is appended
MapSet(m, data) ==
    IF \E i \in 1..Len(m) : m[i].word = data.word
    THEN [i \in 1..Len(m) |-> IF m[i].word = data.word THEN data ELSE m[i]]
    ELSE Append(m, data)

\* lines 869-871: uniqueWords after the forEach, as Array.from(values())
RECURSIVE UniqueWords(_, _)
UniqueWords(found, m) ==
    IF found = <<>> THEN m
    ELSE UniqueWords(Tail(found), MapSet(m, Head(found)))

\* allWords holding one record for every distinct text
FallbackScan_Distinct(g, minY, maxY, minX, maxX) ==
    UniqueWords(FallbackRows(g, minY, maxY, minX, maxX), <<>>)

\* lines 858-866: allWords, one record for every run found
FallbackScan(g, minY, maxY, minX, maxX) == FallbackRows(g, minY, maxY, minX, maxX)

\* foundWordsData filled by the horizontal pass alone
FoundWords_RowsOnly(g, minY, maxY, minX, maxX) ==
    HorizontalPass(g, minY, maxY, minX, maxX)

\* lines 841-856: foundWordsData after the horizontal and the vertical pass
FoundWords(g, minY, maxY, minX, maxX) ==
    HorizontalPass(g, minY, maxY, minX, maxX)
    \o VerticalPass(g, minX, maxX, minY, maxY)

\* lines 834-872
extractWordsFromGrid(g) ==
    IF Cardinality(DOMAIN g) < 2 THEN <<>>
    ELSE LET minX == SetMin({c[1] : c \in DOMAIN g})
             maxX == SetMax({c[1] : c \in DOMAIN g})
             minY == SetMin({c[2] : c \in DOMAIN g})
             maxY == SetMax({c[2] : c \in DOMAIN g})
             foundWordsData == FoundWords(g, minY, maxY, minX, maxX)
             allWords == FallbackScan(g, minY, maxY, minX, maxX)
         IN IF Len(foundWordsData) = 0 /\ Len(allWords) = 1
            THEN allWords
            ELSE UniqueWords(foundWordsData, <<>>)

(***************************************************************************)
(* reconstructGrid, src/scorer.js 677-740                                  *)
(***************************************************************************)
\* line 515 (percent) and line 516 (0.5, in percent)
CONFIDENCE_THRESHOLD == 65
SIZE_DEVIATION_THRESHOLD == 50

UpperAZ == {"A", "B", "C", "D", "E", "F", "G", "H", "I", "J", "K", "L", "M",
            "N", "O", "P", "Q", "R", "S", "T", "U", "V", "W", "X", "Y", "Z"}

\* the alphabet in order, upper and lower case letter by letter
UpperSeq == <<"A", "B", "C", "D", "E", "F", "G", "H", "I", "J", "K", "L", "M",
              "N", "O", "P", "Q", "R", "S", "T", "U", "V", "W", "X", "Y", "Z">>
LowerSeq == <<"a", "b", "c", "d", "e", "f", "g", "h", "i", "j", "k", "l", "m",
              "n", "o", "p", "q", "r", "s", "t", "u", "v", "w", "x", "y", "z">>

\* String.prototype.trim on a text given as the sequence of its characters
RECURSIVE TrimStart(_)
TrimStart(t) == IF t # <<>> /\ Head(t) = " " THEN TrimStart(Tail(t)) ELSE t
RECURSIVE TrimEnd(_)
TrimEnd(t) ==
    IF t # <<>> /\ t[Len(t)] = " " THEN TrimEnd(SubSeq(t, 1, Len(t) - 1)) ELSE t
Trim(t) == TrimEnd(TrimStart(t))

\* /^[A-Z]$/.test(text)
IsSingleUpper(text) == Len(text) = 1 /\ text[1] \in UpperAZ

\* the filter predicate with >= for >
PassesStep1_AtLeast(s) ==
    s.confidence >= CONFIDENCE_THRESHOLD /\ IsSingleUpper(Trim(s.text))

\* line 682: the filter predicate of step 1
PassesStep1(s) ==
    s.confidence > CONFIDENCE_THRESHOLD /\ IsSingleUpper(Trim(s.text))

\* lines 683-690: the glyph made of symbol number i; sym stands for the
\* identity of the symbol object whose bbox the glyph shares (bbox: s.bbox);
\* the inputs have even coordinates, which makes the halving exact
Glyph(s, i) ==
    [text |-> Trim(s.text), bbox |-> s.bbox, sym |-> i,
     cx |-> (s.bbox.x0 + s.bbox.x1) \div 2,
     cy |-> (s.bbox.y0 + s.bbox.y1) \div 2,
     width |-> s.bbox.x1 - s.bbox.x0,
     height |-> s.bbox.y1 - s.bbox.y0]

\* lines 681-690: filter then map, in input order, from symbol i on
RECURSIVE Step1(_, _)
Step1(syms, i) ==
    IF i > Len(syms) THEN <<>>
    ELSE (IF PassesStep1(syms[i]) THEN <<Glyph(syms[i], i)>> ELSE <<>>)
         \o Step1(syms, i + 1)

\* Array.prototype.sort((a, b) => a - b): insertion of v into a sorted list
RECURSIVE InsertSorted(_, _)
InsertSorted(sorted, v) ==
    IF sorted = <<>> THEN <<v>>
    ELSE IF v < Head(sorted) THEN <<v>> \o sorted
    ELSE <<Head(sorted)>> \o InsertSorted(Tail(sorted), v)
RECURSIVE SortAscending(_)
SortAscending(values) ==
    IF values = <<>> THEN <<>>
    ELSE InsertSorted(SortAscending(Tail(values)), Head(values))

\* the middle height of the list as it stands, not sorted
MedianHeight_Unsorted(letters) == letters[(Len(letters) \div 2) + 1].height

\* lines 695-696: heights[Math.floor(heights.length / 2)] of the sorted heights
MedianHeight(letters) ==
    LET heights == SortAscending([i \in 1..Len(letters) |-> letters[i].height])
    IN heights[(Len(heights) \div 2) + 1]

\* the size test with both limits excluded
WithinSize_Exclusive(l, median) ==
    /\ 100 * l.height > median * (100 - SIZE_DEVIATION_THRESHOLD)
    /\ 100 * l.height < median * (100 + SIZE_DEVIATION_THRESHOLD)

\* lines 697-700: minHeight <= height <= maxHeight, in hundredths
WithinSize(l, median) ==
    /\ 100 * l.height >= median * (100 - SIZE_DEVIATION_THRESHOLD)
    /\ 100 * l.height <= median * (100 + SIZE_DEVIATION_THRESHOLD)
SizeFilter(letters, median) == SelectSeq(letters, LAMBDA l : WithinSize(l, median))

\* the join test with a tolerance of 8 pixels whatever the tile size
JoinsLane_FixedTolerance(coord, lane, median) == coord - lane[1] < 8

\* the join test against the lane's latest member
JoinsLane_Previous(coord, lane, median) == 2 * (coord - lane[Len(lane)]) < median

\* line 713: coords[i] - lanes[lanes.length - 1][0] < tolerance, with
\* tolerance = medianHeight * 0.5 (line 707)
JoinsLane(coord, lane, median) == 2 * (coord - lane[1]) < median

\* lines 711-715: the array `lanes` built from the sorted coords
RECURSIVE ClusterLoop(_, _, _)
ClusterLoop(coords, lanes, median) ==
    IF coords = <<>> THEN lanes
    ELSE LET last == lanes[Len(lanes)]
         IN IF JoinsLane(Head(coords), last, median)
            THEN ClusterLoop(Tail(coords),
                     [lanes EXCEPT ![Len(lanes)] = Append(last, Head(coords))],
                     median)
            ELSE ClusterLoop(Tail(coords), Append(lanes, <<Head(coords)>>), median)

\* lines 709-715
CoordinateClusters(coords, median) ==
    LET sorted == SortAscending(coords)
    IN IF Len(sorted) = 0 THEN <<>>
       ELSE ClusterLoop(Tail(sorted), <<<<Head(sorted)>>>>, median)

RECURSIVE SeqSum(_)
SeqSum(q) == IF q = <<>> THEN 0 ELSE Head(q) + SeqSum(Tail(q))

\* line 716: the mean of every lane, as the fraction num / den
LaneMeans(lanes) ==
    [i \in 1..Len(lanes) |-> [num |-> SeqSum(lanes[i]), den |-> Len(lanes[i])]]

\* lines 708-717
findCoordinateLanes(coords, median) == LaneMeans(CoordinateClusters(coords, median))

Abs(n) == IF n < 0 THEN -n ELSE n
Infinity == [num |-> 1, den |-> 0]
\* a < b for fractions with den >= 0 and num >= 0 (Infinity is 1/0)
FracLess(a, b) == a.num * b.den < b.num * a.den
\* the difference without Math.abs
Distance_Signed(coord, lane) == [num |-> coord * lane.den - lane.num, den |-> lane.den]

\* line 723: Math.abs(coord - lane)
Distance(coord, lane) == [num |-> Abs(coord * lane.den - lane.num), den |-> lane.den]

\* lines 722-725: the loop from index i (0-based) on
RECURSIVE ClosestLoop(_, _, _, _, _)
ClosestLoop(coord, lanes, i, closestIndex, minDiff) ==
    IF i >= Len(lanes) THEN closestIndex
    ELSE LET diff == Distance(coord, lanes[i + 1])
         IN IF FracLess(diff, minDiff)
            THEN ClosestLoop(coord, lanes, i + 1, i, diff)
            ELSE ClosestLoop(coord, lanes, i + 1, closestIndex, minDiff)

\* lines 720-727
findClosestLaneIndex(coord, lanes) == ClosestLoop(coord, lanes, 0, 0, Infinity)

\* the key with the row index first
KeyOf_RowFirst(letter, xl, yl) ==
    <<findClosestLaneIndex(letter.cy, yl), findClosestLaneIndex(letter.cx, xl)>>

\* lines 731-733
KeyOf(letter, xl, yl) ==
    <<findClosestLaneIndex(letter.cx, xl), findClosestLaneIndex(letter.cy, yl)>>

\* the two sets without the has() test
PutLetter_Overwrite(maps, key, letter) ==
    [grid |-> [k \in DOMAIN maps.grid \cup {key} |->
                  IF k = key THEN letter.text ELSE maps.grid[k]],
     letterMap |-> [k \in DOMAIN maps.letterMap \cup {key} |->
                  IF k = key THEN letter ELSE maps.letterMap[k]]]

\* lines 734-737: one letter put into the pair of maps
PutLetter(maps, key, letter) ==
    IF key \in DOMAIN maps.grid THEN maps
    ELSE [grid |-> (key :> letter.text) @@ maps.grid,
          letterMap |-> (key :> letter) @@ maps.letterMap]

\* lines 729-738
RECURSIVE FillGrid(_, _, _, _)
FillGrid(letters, xl, yl, maps) ==
    IF letters = <<>> THEN maps
    ELSE FillGrid(Tail(letters), xl, yl,
                  PutLetter(maps, KeyOf(Head(letters), xl, yl), Head(letters)))

\* fewer letters than the mapper needs, with a minimum of one
TooFew_None(letters) == Len(letters) < 1

\* lines 692 and 704: letters.length < 2
TooFew(letters) == Len(letters) < 2

EmptyResult(letters, median) ==
    [grid |-> EmptyMap, letterMap |-> EmptyMap, allLetters |-> letters,
     medianHeight |-> median, xClusters |-> <<>>, yClusters |-> <<>>,
     xLanes |-> <<>>, yLanes |-> <<>>]

\* lines 677-740; besides the returned grid, letterMap and allLetters the
\* record carries the locals medianHeight and the lanes; line 678 is
\* !symbols || symbols.length === 0
reconstructGrid(syms) ==
    IF syms = Null \/ Len(syms) = 0 THEN EmptyResult(<<>>, 0)
    ELSE LET letters1 == Step1(syms, 1)
         IN IF TooFew(letters1) THEN EmptyResult(letters1, 0)
            ELSE LET median == MedianHeight(letters1)
                     letters == SizeFilter(letters1, median)
                 IN IF TooFew(letters) THEN EmptyResult(letters, median)
                    ELSE LET xc == CoordinateClusters(
                                     [i \in 1..Len(letters) |-> letters[i].cx], median)
                             yc == CoordinateClusters(
                                     [i \in 1..Len(letters) |-> letters[i].cy], median)
                             xl == findCoordinateLanes(
                                     [i \in 1..Len(letters) |-> letters[i].cx], median)
                             yl == findCoordinateLanes(
                                     [i \in 1..Len(letters) |-> letters[i].cy], median)
                             maps == FillGrid(letters, xl, yl,
                                       [grid |-> EmptyMap, letterMap |-> EmptyMap])
                         IN [grid |-> maps.grid, letterMap |-> maps.letterMap,
                             allLetters |-> letters, medianHeight |-> median,
                             xClusters |-> xc, yClusters |-> yc,
                             xLanes |-> xl, yLanes |-> yl]

(***************************************************************************)
(* processWords, src/scorer.js 804-832, and the dictionary it reads        *)
(***************************************************************************)
\* lines 518-522
letterScores ==
    [c \in UpperAZ |->
        CASE c \in {"A", "E", "I", "L", "N", "O", "R", "S", "T", "U"} -> 1
          [] c \in {"D", "G"} -> 2
          [] c \in {"B", "C", "M", "P"} -> 3
          [] c \in {"F", "H", "V", "W", "Y"} -> 4
          [] c = "K" -> 5
          [] c \in {"J", "X"} -> 8
          [] c \in {"Q", "Z"} -> 10]

\* String.prototype.toLowerCase, character by character
LowerChar(c) ==
    IF \E n \in 1..26 : UpperSeq[n] = c
    THEN LowerSeq[CHOOSE n \in 1..26 : UpperSeq[n] = c]
    ELSE c
toLowerCase(word) == [i \in 1..Len(word) |-> LowerChar(word[i])]

\* line 779: the set of the trimmed, lower-cased lines of dictionary.txt
loadDictionary(lines) ==
    {toLowerCase(Trim(lines[i])) : i \in 1..Len(lines)}

\* every character counted as one point
CharScore_Flat(char) == 1

\* line 814: letterScores[char] || 0 (no table value is 0)
CharScore(char) == IF char \in DOMAIN letterScores THEN letterScores[char] ELSE 0

\* line 814: Array.from(data.word).reduce((acc, char) => acc + ..., 0)
RECURSIVE WordScore(_)
WordScore(word) ==
    IF word = <<>> THEN 0
    ELSE WordScore(SubSeq(word, 1, Len(word) - 1)) + CharScore(word[Len(word)])

\* the dictionary test on the candidate's text as it stands
InDictionary_AsIs(word, dict) == word \in dict

\* line 813: dictionary.has(data.word.toLowerCase())
InDictionary(word, dict) == toLowerCase(word) \in dict

\* lines 811-818: the array validWords, in the order of wordsData
RECURSIVE ValidWords(_, _)
ValidWords(data, dict) ==
    IF data = <<>> THEN <<>>
    ELSE LET rest == ValidWords(SubSeq(data, 1, Len(data) - 1), dict)
             last == data[Len(data)]
         IN IF InDictionary(last.word, dict)
            THEN Append(rest, [word |-> last.word, score |-> WordScore(last.word)])
            ELSE rest

\* line 816: totalScore += score over validWords
RECURSIVE TotalScore(_)
TotalScore(valid) ==
    IF valid = <<>> THEN 0
    ELSE TotalScore(SubSeq(valid, 1, Len(valid) - 1)) + valid[Len(valid)].score

\* the collation rank of a character: a letter by its place in the
\* alphabet, any other character before the letters
CharRank(c) ==
    IF \E n \in 1..26 : UpperSeq[n] = c \/ LowerSeq[n] = c
    THEN CHOOSE n \in 1..26 : UpperSeq[n] = c \/ LowerSeq[n] = c
    ELSE 0

\* the first level of the collation: the characters compared by rank, a
\* text before the texts it begins
RECURSIVE LettersBefore(_, _)
LettersBefore(a, b) ==
    IF b = <<>> THEN FALSE
    ELSE IF a = <<>> THEN TRUE
    ELSE IF CharRank(Head(a)) # CharRank(Head(b))
         THEN CharRank(Head(a)) < CharRank(Head(b))
         ELSE LettersBefore(Tail(a), Tail(b))

\* the last level of the collation, for texts of the same letters: at the
\* first place where they differ the small letter comes first
RECURSIVE CaseBefore(_, _)
CaseBefore(a, b) ==
    IF a = <<>> \/ b = <<>> THEN FALSE
    ELSE IF Head(a) # Head(b)
         THEN \E n \in 1..26 : LowerSeq[n] = Head(a)
         ELSE CaseBefore(Tail(a), Tail(b))

\* a.localeCompare(b) < 0
ComesBefore(a, b) ==
    \/ LettersBefore(a, b)
    \/ ~LettersBefore(b, a) /\ CaseBefore(a, b)

\* line 823: validWords.sort((a, b) => a.word.localeCompare(b.word)), a
\* stable sort: an entry goes after the entries that do not come after it
RECURSIVE InsertByWord(_, _)
InsertByWord(sorted, entry) ==
    IF sorted = <<>> THEN <<entry>>
    ELSE IF ComesBefore(entry.word, Head(sorted).word)
         THEN <<entry>> \o sorted
         ELSE <<Head(sorted)>> \o InsertByWord(Tail(sorted), entry)
\* the entries left in the order of validWords
SortByWord_AsPushed(valid) == valid

RECURSIVE SortByWord(_)
SortByWord(valid) ==
    IF valid = <<>> THEN <<>>
    ELSE InsertByWord(SortByWord(SubSeq(valid, 1, Len(valid) - 1)), valid[Len(valid)])

\* lines 808 and 820: the text "No valid words found"
NoValidWords == <<"No valid words found">>
\* line 830: the template `Total Score: ${totalScore}` with its number
TotalLine(total) == <<"Total Score: ", total>>

\* no candidate is ever taken for none
NoneValid_Never(valid) == FALSE

\* line 819: validWords.length === 0
NoneValid(valid) == Len(valid) = 0

\* lines 804-832: what processWords leaves on the page; the panel is made
\* visible on every path (lines 809, 821, 831)
processWords(data, dict) ==
    IF Len(data) = 0
    THEN [outputEl |-> <<>>, totalScoreEl |-> NoValidWords, resultsVisible |-> TRUE]
    ELSE LET valid == ValidWords(data, dict)
         IN IF NoneValid(valid)
            THEN [outputEl |-> <<>>, totalScoreEl |-> NoValidWords,
                  resultsVisible |-> TRUE]
            ELSE [outputEl |-> SortByWord(valid),
                  totalScoreEl |-> TotalLine(TotalScore(valid)),
                  resultsVisible |-> TRUE]

\* the lines of dictionary.txt the pipeline is run with: words that the
\* grids of the model spell, words they do not, a line with a blank at its
\* end, a one-letter word and the empty line after the last newline
DictionaryLines ==
    << <<"c", "a", "t">>, <<"a", "r", "t">>, <<"a", "b">>,
       <<"a", "a", "b", " ">>, <<"a">>, <<>> >>

(***************************************************************************)
(* Operations                                                              *)
(***************************************************************************)
\* the keys of all paths: lettersInWords of lines 658-661
LettersInWords(data) ==
    UNION {{data[i].path[j] : j \in 1..Len(data[i].path)} : i \in 1..Len(data)}

\* lines 600-603: the canvas cleared, then a rectangle stroked for every
\* letter (drawDebugBoxes, 642-651) and one for every path key that the
\* letterMap holds (highlightFinalWords, 653-670); the rectangles are kept
\* by the bbox they are mapped from (mapBoxToCanvas, 613-640, depends on
\* the sizes of video and canvas only)
DebugDrawing(letters, data, lmap) ==
    {[style |-> "red", bbox |-> letters[i].bbox] : i \in 1..Len(letters)}
    \cup {[style |-> "green", bbox |-> lmap[k].bbox] :
             k \in LettersInWords(data) \cap DOMAIN lmap}

\* runRecognition lines 596-603: wordsData = extractWordsFromGrid(grid);
\* lastRecognizedWordsData = wordsData; the debug canvas redrawn
ExtractWords ==
    /\ pc = "grid"
    /\ wordsData' = extractWordsFromGrid(grid)
    /\ lastRecognizedWordsData' = wordsData'
    /\ lastRecognizedBy' = liveViewIntervalId
    /\ debugCanvas' = DebugDrawing(allLetters, wordsData', letterMap)
    /\ pc' = "words"
    /\ UNCHANGED <<symbols, gridVars, dictionary, scoreVars, appVars, scanVars>>

\* a clearInterval that leaves the timer running
ClearInterval_Kept(id) == activeIntervals

\* clearInterval(id): the timer with that id, if any, is no longer active
ClearInterval(id) == activeIntervals \ {id}

\* lines 557-560 in LIVE_VIEW, setState(SCORING) lines 535 and 549-553:
\* the timer is cleared (liveViewIntervalId keeps its value) and
\* processWords(lastRecognizedWordsData) fills the results panel
ScoreClick ==
    /\ currentState = "LIVE_VIEW"
    /\ currentState' = "SCORING"
    /\ activeIntervals' = ClearInterval(liveViewIntervalId)
    /\ LET r == processWords(lastRecognizedWordsData, dictionary)
       IN /\ outputEl' = r.outputEl
          /\ totalScoreEl' = r.totalScoreEl
          /\ resultsVisible' = r.resultsVisible
    /\ UNCHANGED <<recognitionVars, lastRecognizedWordsData, dictionary,
                   liveViewIntervalId, jobs, debugCanvas, lastRecognizedBy,
                   scanVars>>

\* the Score click after a recognition pass
ProcessWords ==
    /\ pc = "words"
    /\ ScoreClick
    /\ pc' = "scored"

\* runRecognition line 595: reconstructGrid(ocrData.symbols)
ReconstructGrid ==
    /\ pc = "symbols"
    /\ \E r \in {reconstructGrid(symbols)} :
          /\ grid' = r.grid
          /\ letterMap' = r.letterMap
          /\ allLetters' = r.allLetters
          /\ medianHeight' = r.medianHeight
          /\ xClusters' = r.xClusters
          /\ yClusters' = r.yClusters
          /\ xLanes' = r.xLanes
          /\ yLanes' = r.yLanes
    /\ pc' = "grid"
    /\ UNCHANGED <<symbols, wordsData, lastRecognizedWordsData, dictionary,
                   scoreVars, appVars, debugCanvas, lastRecognizedBy, scanVars>>

(***************************************************************************)
(* Inputs of reconstructGrid: lists of at most MaxSymbols symbols          *)
(***************************************************************************)
MaxSymbols == 3

Box(x, y) == [x0 |-> x, y0 |-> y, x1 |-> x + 16, y1 |-> y + 16]

\* well-read letters on tiles of side 16 at close and at separate positions
PlacedSymbols ==
    {[text |-> <<c>>, confidence |-> 90, bbox |-> Box(x, y)] :
        c \in Letters, x \in {0, 6, 8}, y \in {0, 16}}

\* readings of every kind on a row of adjacent tiles, symbol i on tile i
ReadTexts == {<<"A">>, <<"B", " ">>, <<"a">>, <<"A", "B">>}
ReadConfidences == {40, 65, 66}
ReadSymbols(i) ==
    {[text |-> t, confidence |-> c, bbox |-> Box(16 * (i - 1), 0)] :
        t \in ReadTexts, c \in ReadConfidences}

RECURSIVE ReadLists(_)
ReadLists(n) ==
    IF n = 0 THEN {<<>>}
    ELSE {Append(q, s) : q \in ReadLists(n - 1), s \in ReadSymbols(n)}

\* well-read letters of several heights, each height at a place of its
\* own along one line (x0 = 2 * height): against a median of 16 the
\* heights 8 and 24 lie on the limits of the size filter, 6 and 26 outside
Heights == {6, 8, 16, 24, 26}
SizedSymbols ==
    {[text |-> <<"A">>, confidence |-> 90,
      bbox |-> [x0 |-> 2 * h, y0 |-> 0, x1 |-> 2 * h + 16, y1 |-> h]] :
        h \in Heights}

\* well-read letters of CAT on the tiles of one row, one symbol to a tile,
\* in any order of the list, with tiles left free
TileSymbols ==
    {[text |-> <<c>>, confidence |-> 90, bbox |-> Box(16 * p, 0)] :
        c \in {"C", "A", "T"}, p \in 0..(MaxSymbols - 1)}
TileLists(n) ==
    {q \in [1..n -> TileSymbols] :
        \A i, j \in 1..n : q[i].bbox.x0 = q[j].bbox.x0 => i = j}

SymbolLists ==
    UNION {[1..n -> PlacedSymbols] : n \in 0..MaxSymbols}
    \cup UNION {TileLists(n) : n \in 0..MaxSymbols}
    \cup UNION {ReadLists(n) : n \in 0..MaxSymbols}
    \cup UNION {[1..n -> SizedSymbols] : n \in 0..MaxSymbols}

Init ==
    /\ symbols \in SymbolLists \cup {Null}
    /\ medianHeight = 0
    /\ xClusters = <<>> /\ yClusters = <<>>
    /\ xLanes = <<>> /\ yLanes = <<>>
    /\ allLetters = <<>>
    /\ grid = EmptyMap
    /\ letterMap = EmptyMap
    /\ wordsData = <<>>
    /\ lastRecognizedWordsData = <<>>
    /\ dictionary = loadDictionary(DictionaryLines)
    /\ outputEl = <<>>
    /\ totalScoreEl = <<>>
    /\ resultsVisible = FALSE
    /\ currentState = "LIVE_VIEW"
    /\ liveViewIntervalId = 1
    /\ activeIntervals = {1}
    /\ jobs = <<>>
    /\ debugCanvas = {}
    /\ lastRecognizedBy = 0
    /\ scannedWords = {}
    /\ totalScore = 0
    /\ pc = "symbols"

Next == ReconstructGrid \/ ExtractWords \/ ProcessWords

Spec == Init /\ [][Next]_vars

\* extractWordsFromGrid applied to any grid of the bounded family
InitExtract ==
    /\ symbols = <<>>
    /\ medianHeight = 0
    /\ xClusters = <<>> /\ yClusters = <<>>
    /\ xLanes = <<>> /\ yLanes = <<>>
    /\ allLetters = <<>>
    /\ grid \in Grids \cup Boards
    /\ letterMap = EmptyMap
    /\ wordsData = <<>>
    /\ lastRecognizedWordsData = <<>>
    /\ dictionary = loadDictionary(DictionaryLines)
    /\ outputEl = <<>>
    /\ totalScoreEl = <<>>
    /\ resultsVisible = FALSE
    /\ currentState = "LIVE_VIEW"
    /\ liveViewIntervalId = 1
    /\ activeIntervals = {1}
    /\ jobs = <<>>
    /\ debugCanvas = {}
    /\ lastRecognizedBy = 0
    /\ scannedWords = {}
    /\ totalScore = 0
    /\ pc = "grid"

NextExtract == ExtractWords \/ ProcessWords

SpecExtract == InitExtract /\ [][NextExtract]_vars

(***************************************************************************)
(* Inputs of processWords: lists of at most MaxCandidates candidates and   *)
(* the dictionaries over a pool of words                                   *)
(***************************************************************************)
MaxCandidates == 2

\* texts in and out of the dictionaries, one with a character and one with
\* letters that the table of letterScores does not hold
CandidateTexts ==
    {<<"A", "B">>, <<"B", "A">>, <<"A", "A", "B">>, <<"A", "?">>, <<"a", "b">>}
CandidateSet ==
    {[word |-> t, path |-> [i \in 1..Len(t) |-> <<i - 1, 0>>]] : t \in CandidateTexts}
CandidateLists == UNION {[1..n -> CandidateSet] : n \in 0..MaxCandidates}

WordPool == {<<"a", "b">>, <<"b", "a">>, <<"a", "?">>}
Dictionaries == SUBSET WordPool

\* processWords applied to any candidate list under any dictionary
InitScore ==
    /\ symbols = <<>>
    /\ medianHeight = 0
    /\ xClusters = <<>> /\ yClusters = <<>>
    /\ xLanes = <<>> /\ yLanes = <<>>
    /\ allLetters = <<>>
    /\ grid = EmptyMap
    /\ letterMap = EmptyMap
    /\ wordsData \in CandidateLists
    /\ lastRecognizedWordsData = wordsData
    /\ dictionary \in Dictionaries
    /\ outputEl = <<>>
    /\ totalScoreEl = <<>>
    /\ resultsVisible = FALSE
    /\ currentState = "LIVE_VIEW"
    /\ liveViewIntervalId = 1
    /\ activeIntervals = {1}
    /\ jobs = <<>>
    /\ debugCanvas = {}
    /\ lastRecognizedBy = 0
    /\ scannedWords = {}
    /\ totalScore = 0
    /\ pc = "words"

NextScore == ProcessWords

SpecScore == InitScore /\ [][NextScore]_vars

(***************************************************************************)
(* The application: state machine, interval timer and recognition passes   *)
(* (lines 510-604)                                                         *)
(***************************************************************************)
\* at most MaxIntervals live-view sessions are started
MaxIntervals == 2
\* at most MaxJobs recognition passes wait for their OCR job at a time
MaxJobs == 2

\* a row of well-read letters on adjacent tiles of side 16
TileRow(text) ==
    [i \in 1..Len(text) |->
        [text |-> <<text[i]>>, confidence |-> 90, bbox |-> Box(16 * (i - 1), 0)]]

\* what the OCR job of a live frame may return
FrameSymbols ==
    {TileRow(t) : t \in {<<>>, <<"A", "B">>, <<"B", "A">>, <<"C", "A", "T">>}}

\* initialize, lines 526-531, returns with camera, dictionary and OCR
\* engine set up: loadDictionary has filled the dictionary, then
\* setState(IDLE), whatever the state is by then
Initialize ==
    /\ pc = "init"
    /\ pc' = "app"
    /\ dictionary' = loadDictionary(DictionaryLines)
    /\ currentState' = "IDLE"
    /\ activeIntervals' = ClearInterval(liveViewIntervalId)
    /\ UNCHANGED <<recognitionVars, lastRecognizedWordsData, scoreVars,
                   liveViewIntervalId, jobs, debugCanvas, lastRecognizedBy,
                   scanVars>>

\* lines 557-560 in IDLE, setState(LIVE_VIEW) lines 545-548 and
\* startLiveRecognition lines 570-573
StartClick ==
    /\ currentState = "IDLE"
    /\ liveViewIntervalId < MaxIntervals
    /\ currentState' = "LIVE_VIEW"
    /\ liveViewIntervalId' = liveViewIntervalId + 1
    /\ activeIntervals' =
          ClearInterval(liveViewIntervalId) \cup {liveViewIntervalId + 1}
    /\ UNCHANGED <<recognitionVars, lastRecognizedWordsData, dictionary,
                   scoreVars, jobs, debugCanvas, lastRecognizedBy, scanVars, pc>>

\* the Score click on the page
ScoreGrid == ScoreClick /\ UNCHANGED pc

\* lines 562-567, a click on the close button in any state: the panel
\* hidden, the debug canvas cleared, setState(IDLE)
CloseResults ==
    /\ resultsVisible' = FALSE
    /\ debugCanvas' = {}
    /\ currentState' = "IDLE"
    /\ activeIntervals' = ClearInterval(liveViewIntervalId)
    /\ UNCHANGED <<recognitionVars, lastRecognizedWordsData, dictionary,
                   outputEl, totalScoreEl, liveViewIntervalId, jobs,
                   lastRecognizedBy, scanVars, pc>>

\* an active interval fires: runRecognition lines 575-591 up to the await;
\* outside LIVE_VIEW the call returns at line 576. While initialize has
\* not returned, tesseractScheduler may still be undefined and line 591
\* throws, which ends the call with nothing changed
Tick ==
    /\ \E id \in activeIntervals :
          IF currentState = "LIVE_VIEW"
          THEN \/ /\ Len(jobs) < MaxJobs
                  /\ jobs' = Append(jobs, id)
               \/ /\ pc = "init"
                  /\ jobs' = jobs
          ELSE jobs' = jobs
    /\ UNCHANGED <<recognitionVars, lastRecognizedWordsData, dictionary,
                   scoreVars, currentState, liveViewIntervalId,
                   activeIntervals, debugCanvas, lastRecognizedBy, scanVars, pc>>

\* the oldest OCR job resolves (the scheduler has its worker once
\* initialize has returned): runRecognition lines 591-603
RecognitionDone ==
    /\ pc = "app"
    /\ jobs # <<>>
    /\ jobs' = Tail(jobs)
    /\ lastRecognizedBy' = Head(jobs)
    /\ \E syms \in FrameSymbols :
          \E r \in {reconstructGrid(syms)} :
             \E data \in {extractWordsFromGrid(r.grid)} :
                /\ symbols' = syms
                /\ grid' = r.grid
                /\ letterMap' = r.letterMap
                /\ allLetters' = r.allLetters
                /\ medianHeight' = r.medianHeight
                /\ xClusters' = r.xClusters
                /\ yClusters' = r.yClusters
                /\ xLanes' = r.xLanes
                /\ yLanes' = r.yLanes
                /\ wordsData' = data
                /\ lastRecognizedWordsData' = data
                /\ debugCanvas' = DebugDrawing(r.allLetters, data, r.letterMap)
    /\ UNCHANGED <<dictionary, scoreVars, currentState, liveViewIntervalId,
                   activeIntervals, scanVars, pc>>

InitApp ==
    /\ symbols = <<>>
    /\ medianHeight = 0
    /\ xClusters = <<>> /\ yClusters = <<>>
    /\ xLanes = <<>> /\ yLanes = <<>>
    /\ allLetters = <<>>
    /\ grid = EmptyMap
    /\ letterMap = EmptyMap
    /\ wordsData = <<>>
    /\ lastRecognizedWordsData = <<>>
    /\ dictionary = {}
    /\ outputEl = <<>>
    /\ totalScoreEl = <<>>
    /\ resultsVisible = FALSE
    /\ currentState = "INITIALIZING"
    /\ liveViewIntervalId = 0
    /\ activeIntervals = {}
    /\ jobs = <<>>
    /\ debugCanvas = {}
    /\ lastRecognizedBy = 0
    /\ scannedWords = {}
    /\ totalScore = 0
    /\ pc = "init"

NextApp ==
    \/ Initialize
    \/ StartClick
    \/ ScoreGrid
    \/ CloseResults
    \/ Tick
    \/ RecognitionDone

SpecApp == InitApp /\ [][NextApp]_vars

(***************************************************************************)
(* The single-line scanner of src/unnamed/part_002: every scan reads one   *)
(* word, and the words and their total are kept from scan to scan. Its     *)
(* page elements (lines 5-8), its dictionary (17, 33-42) and its table of  *)
(* letter scores (12-16) are those of the grid scorer.                     *)
(***************************************************************************)
\* String.prototype.toUpperCase, character by character
UpperChar(c) ==
    IF \E n \in 1..26 : LowerSeq[n] = c
    THEN UpperSeq[CHOOSE n \in 1..26 : LowerSeq[n] = c]
    ELSE c
toUpperCase(word) == [i \in 1..Len(word) |-> UpperChar(word[i])]

\* line 117: text.trim().toUpperCase().replace(/[^A-Z]/g, '')
ScanWord(text) ==
    SelectSeq(toUpperCase(Trim(text)), LAMBDA c : c \in UpperAZ)

\* a scanner that remembers no word
AlreadyScanned_Never(word, scanned) == FALSE

\* line 119: scannedWords.has(word)
AlreadyScanned(word, scanned) == word \in scanned

\* lines 116-145: the scanner's state and page after processRecognizedText;
\* a new line is put before the others (line 139)
processRecognizedText(text, st, dict) ==
    LET word == ScanWord(text)
    IN IF Len(word) < 2 \/ AlreadyScanned(word, st.scannedWords) THEN st
       ELSE LET isValid == toLowerCase(word) \in dict
                score == WordScore(word)
                total == IF isValid THEN st.totalScore + score ELSE st.totalScore
                line == IF isValid
                        THEN [word |-> word, valid |-> TRUE, score |-> score]
                        ELSE [word |-> word, valid |-> FALSE]
            IN [scannedWords |-> st.scannedWords \cup {word},
                totalScore |-> total,
                outputEl |-> <<line>> \o st.outputEl,
                totalScoreEl |-> TotalLine(total),
                resultsVisible |-> TRUE]

\* what the OCR of a single line may return: words in small and capital
\* letters, with blanks and digits among the letters, one letter alone and
\* no letter at all
ScanTexts ==
    {<<"a", "b">>, <<"A", "B", " ">>, <<"b", "1", "a">>, <<"B", "A">>,
     <<"a", "a", "b">>, <<"b", "b">>, <<" ", "a", "1">>, <<"1", " ">>, <<>>}

\* handleScan lines 106-110: the OCR job resolves and processRecognizedText
\* takes its text (the scan button is disabled while a scan runs, lines 80
\* and 112)
ProcessRecognizedText ==
    /\ pc = "scan"
    /\ \E text \in ScanTexts :
          \E r \in {processRecognizedText(text,
                        [scannedWords |-> scannedWords, totalScore |-> totalScore,
                         outputEl |-> outputEl, totalScoreEl |-> totalScoreEl,
                         resultsVisible |-> resultsVisible], dictionary)} :
             /\ scannedWords' = r.scannedWords
             /\ totalScore' = r.totalScore
             /\ outputEl' = r.outputEl
             /\ totalScoreEl' = r.totalScoreEl
             /\ resultsVisible' = r.resultsVisible
    /\ UNCHANGED <<recognitionVars, lastRecognizedWordsData, dictionary,
                   appVars, debugCanvas, lastRecognizedBy, pc>>

\* line 76: the close button hides the panel
ClosePanel ==
    /\ pc = "scan"
    /\ resultsVisible
    /\ resultsVisible' = FALSE
    /\ UNCHANGED <<recognitionVars, lastRecognizedWordsData, dictionary,
                   outputEl, totalScoreEl, appVars, debugCanvas,
                   lastRecognizedBy, scanVars, pc>>

\* the scanner when initialize (lines 23-31) has enabled the scan button:
\* the dictionary is loaded, or left empty when the load failed
InitScan ==
    /\ symbols = <<>>
    /\ medianHeight = 0
    /\ xClusters = <<>> /\ yClusters = <<>>
    /\ xLanes = <<>> /\ yLanes = <<>>
    /\ allLetters = <<>>
    /\ grid = EmptyMap
    /\ letterMap = EmptyMap
    /\ wordsData = <<>>
    /\ lastRecognizedWordsData = <<>>
    /\ dictionary \in Dictionaries
    /\ outputEl = <<>>
    /\ totalScoreEl = <<>>
    /\ resultsVisible = FALSE
    /\ currentState = "IDLE"
    /\ liveViewIntervalId = 0
    /\ activeIntervals = {}
    /\ jobs = <<>>
    /\ debugCanvas = {}
    /\ lastRecognizedBy = 0
    /\ scannedWords = {}
    /\ totalScore = 0
    /\ pc = "scan"

NextScan == ProcessRecognizedText \/ ClosePanel

SpecScan == InitScan /\ [][NextScan]_vars

(***************************************************************************)
(* Runs of a grid, stated directly (not by scanning): a run is a maximal   *)
(* stretch of two or more occupied cells along a row or a column.          *)
(***************************************************************************)
RunCell(r, i) == IF r.horizontal THEN <<r.from + i - 1, r.line>>
                 ELSE <<r.line, r.from + i - 1>>
RunPath(r) == [i \in 1..(r.to - r.from + 1) |-> RunCell(r, i)]
RECURSIVE RunTextFrom(_, _, _)
RunTextFrom(g, r, i) ==
    IF i > r.to - r.from + 1 THEN <<>>
    ELSE g[RunCell(r, i)] \o RunTextFrom(g, r, i + 1)
RunText(g, r) == RunTextFrom(g, r, 1)

\* r.line is the row of a horizontal run (the column of a vertical one),
\* r.from..r.to its columns (rows)
IsRun(g, r) ==
    /\ r.from < r.to
    /\ \A i \in 1..(r.to - r.from + 1) : RunCell(r, i) \in DOMAIN g
    /\ RunCell(r, 0) \notin DOMAIN g
    /\ RunCell(r, r.to - r.from + 2) \notin DOMAIN g

GridSpan(g) == {c[1] : c \in DOMAIN g} \cup {c[2] : c \in DOMAIN g}

\* the runs along one axis: a run starts on an occupied cell whose
\* predecessor is free and ends on the last occupied cell of the stretch
RunsAlong(g, h) ==
    LET starts == {c \in DOMAIN g :
                     (IF h THEN <<c[1] - 1, c[2]>> ELSE <<c[1], c[2] - 1>>)
                         \notin DOMAIN g}
    IN {r \in {[horizontal |-> h,
                line |-> IF h THEN c[2] ELSE c[1],
                from |-> IF h THEN c[1] ELSE c[2],
                to |-> t] : c \in starts, t \in GridSpan(g)} : IsRun(g, r)}

AllRuns(g) == RunsAlong(g, TRUE) \cup RunsAlong(g, FALSE)

\* some cell of the run has an occupied neighbour across the run
RunConnected(g, r) ==
    \E i \in 1..(r.to - r.from + 1) :
        LET c == RunCell(r, i)
        IN IF r.horizontal
           THEN <<c[1], c[2] - 1>> \in DOMAIN g \/ <<c[1], c[2] + 1>> \in DOMAIN g
           ELSE <<c[1] - 1, c[2]>> \in DOMAIN g \/ <<c[1] + 1, c[2]>> \in DOMAIN g

ConnectedRuns(g) == {r \in AllRuns(g) : RunConnected(g, r)}

RunTexts(g, runs) == {RunText(g, r) : r \in runs}

\* scan order of the two passes: the rows' runs by ascending row and
\* column, then the columns' runs by ascending column and row
ScansBefore(r, s) ==
    \/ r.horizontal /\ ~s.horizontal
    \/ /\ r.horizontal = s.horizontal
       /\ \/ r.line < s.line
          \/ r.line = s.line /\ r.from < s.from

Candidate(g, r) == [word |-> RunText(g, r), path |-> RunPath(r)]

Extracted == pc = "words"

\* the texts of the returned list are pairwise different
NoDuplicateText ==
    \A i, j \in 1..Len(wordsData) :
        wordsData[i].word = wordsData[j].word => i = j

(***************************************************************************)
(* Claims on extractWordsFromGrid                                          *)
(***************************************************************************)

\* C1: when no run is connected and the grid has exactly one run of length
\* >= 2, rows and columns counted together, exactly that run is returned,
\* be it horizontal or vertical.
C1_BootstrapBothAxes ==
    (Extracted /\ ConnectedRuns(grid) = {} /\ Cardinality(AllRuns(grid)) = 1)
        => \E r \in AllRuns(grid) : wordsData = <<Candidate(grid, r)>>

\* C2: when no run is connected and the rows and columns together hold
\* runs of more than one distinct text, nothing is returned.
C2_AmbiguousBootstrapEmpty ==
    (Extracted /\ ConnectedRuns(grid) = {}
        /\ Cardinality(RunTexts(grid, AllRuns(grid))) > 1)
        => wordsData = <<>>

\* C3: when some run is connected, the returned texts are exactly the
\* texts of the connected runs, and every returned candidate is a connected
\* run with its own text and path (so no unconnected run and no single
\* cell is returned).
C3_ConnectivityRule ==
    Extracted =>
        LET connected == ConnectedRuns(grid)
        IN connected # {} =>
              /\ {wordsData[i].word : i \in 1..Len(wordsData)}
                    = RunTexts(grid, connected)
              /\ \A i \in 1..Len(wordsData) :
                    \E r \in connected : wordsData[i] = Candidate(grid, r)

\* a connected run is returned while an unconnected run of length >= 2
\* stands elsewhere on the grid
C3_Witness ==
    /\ Extracted
    /\ ConnectedRuns(grid) # {}
    /\ AllRuns(grid) \ ConnectedRuns(grid) # {}
    /\ Len(wordsData) > 0

\* C4 as stated: no text is returned twice, and of several connected runs
\* with one text the returned path is that of the first in scan order.
C4_DedupKeepsFirst ==
    Extracted =>
        LET connected == ConnectedRuns(grid)
        IN /\ NoDuplicateText
           /\ \A i \in 1..Len(wordsData) :
                \A r \in connected :
                   (/\ RunText(grid, r) = wordsData[i].word
                    /\ \A s \in connected :
                          (s # r /\ RunText(grid, s) = RunText(grid, r))
                              => ScansBefore(r, s))
                       => wordsData[i].path = RunPath(r)

\* C4 amended: no text is returned twice, and of several connected runs
\* with one text the returned path is that of the last in scan order.
C4_DedupKeepsLast ==
    Extracted =>
        LET connected == ConnectedRuns(grid)
        IN /\ NoDuplicateText
           /\ \A i \in 1..Len(wordsData) :
                \A r \in connected :
                   (/\ RunText(grid, r) = wordsData[i].word
                    /\ \A s \in connected :
                          (s # r /\ RunText(grid, s) = RunText(grid, r))
                              => ScansBefore(s, r))
                       => wordsData[i].path = RunPath(r)

\* two connected runs spell the same text and that text is returned
C4_Witness ==
    /\ Extracted
    /\ \E r, s \in ConnectedRuns(grid) :
          /\ r # s
          /\ RunText(grid, r) = RunText(grid, s)
          /\ \E i \in 1..Len(wordsData) : wordsData[i].word = RunText(grid, r)

\* C5 as stated: when no run is connected and the several runs of length
\* >= 2 all spell one text, exactly one candidate with that text is
\* returned.
C5_BootstrapCountsDistinct ==
    (Extracted /\ ConnectedRuns(grid) = {}
        /\ Cardinality(AllRuns(grid)) > 1
        /\ Cardinality(RunTexts(grid, AllRuns(grid))) = 1)
        => /\ Len(wordsData) = 1
           /\ wordsData[1].word \in RunTexts(grid, AllRuns(grid))

\* C5 amended: when no run is connected and the rows hold several runs of
\* length >= 2, nothing is returned, also when all of them spell one text:
\* the fallback counts runs, not distinct texts.
C5_BootstrapCountsRuns ==
    (Extracted /\ ConnectedRuns(grid) = {}
        /\ Cardinality(RunsAlong(grid, TRUE)) > 1)
        => wordsData = <<>>

\* no run is connected, several rows hold a run, all runs spell one text
C5_Witness ==
    /\ Extracted
    /\ ConnectedRuns(grid) = {}
    /\ Cardinality(RunsAlong(grid, TRUE)) > 1
    /\ Cardinality(RunTexts(grid, AllRuns(grid))) = 1
    /\ wordsData = <<>>

(***************************************************************************)
(* Claims on reconstructGrid                                               *)
(***************************************************************************)
Reconstructed == pc # "symbols" /\ symbols # Null

\* the glyph made of symbol i is among the glyphs reconstructGrid kept
Kept(i) == \E j \in 1..Len(allLetters) : allLetters[j].sym = i

\* the glyph made of symbol i sits in the grid
InGrid(i) == \E k \in DOMAIN letterMap : letterMap[k].sym = i

\* symbol i has the median's size, or no median was needed
SizeFits(i) ==
    medianHeight = 0 \/ WithinSize(Glyph(symbols[i], i), medianHeight)

\* the glyphs of allLetters that map to key k, by position
GlyphsAt(k) ==
    {j \in 1..Len(allLetters) : KeyOf(allLetters[j], xLanes, yLanes) = k}

\* C6: grid and letterMap have the same keys and agree on the letter; at
\* every key both hold the first glyph, in input order, that maps to the
\* key; a later glyph of the same key is in neither map; every glyph's key
\* is taken.
C6_FirstWriterWins ==
    Reconstructed =>
        /\ DOMAIN grid = DOMAIN letterMap
        /\ \A k \in DOMAIN grid :
              /\ letterMap[k].text = grid[k]
              /\ GlyphsAt(k) # {}
              /\ letterMap[k] = allLetters[SetMin(GlyphsAt(k))]
        /\ Len(allLetters) >= 2 =>
              \A j \in 1..Len(allLetters) :
                 LET k == KeyOf(allLetters[j], xLanes, yLanes)
                 IN /\ k \in DOMAIN grid
                    /\ j # SetMin(GlyphsAt(k)) => ~InGrid(allLetters[j].sym)

\* two glyphs with different letters met on one key
C6_Witness ==
    /\ Reconstructed
    /\ \E k \in DOMAIN grid :
          \E i, j \in GlyphsAt(k) : i < j /\ allLetters[i].text # allLetters[j].text

\* C7 as stated: a single-letter symbol is dropped for its confidence
\* exactly when the confidence is below the threshold; one at the
\* threshold stays.
C7_DroppedBelowThreshold ==
    Reconstructed =>
        \A i \in 1..Len(symbols) :
            /\ symbols[i].confidence < CONFIDENCE_THRESHOLD
                  => ~Kept(i) /\ ~InGrid(i)
            /\ (/\ IsSingleUpper(Trim(symbols[i].text))
                /\ SizeFits(i)
                /\ symbols[i].confidence >= CONFIDENCE_THRESHOLD) => Kept(i)

\* C7 amended: a single-letter symbol is dropped for its confidence exactly
\* when the confidence is at or below the threshold; one at the threshold
\* is dropped, one above it stays.
C7_DroppedAtOrBelowThreshold ==
    Reconstructed =>
        \A i \in 1..Len(symbols) :
            /\ symbols[i].confidence <= CONFIDENCE_THRESHOLD
                  => ~Kept(i) /\ ~InGrid(i)
            /\ (/\ IsSingleUpper(Trim(symbols[i].text))
                /\ SizeFits(i)
                /\ symbols[i].confidence > CONFIDENCE_THRESHOLD) => Kept(i)

\* a letter read with confidence 65 is missing between two kept letters
C7_Witness ==
    /\ Reconstructed
    /\ Len(symbols) = 3
    /\ IsSingleUpper(Trim(symbols[2].text))
    /\ symbols[2].confidence = CONFIDENCE_THRESHOLD
    /\ ~Kept(2)
    /\ InGrid(1) /\ InGrid(3)

IsSingleLower(text) == Len(text) = 1 /\ \E n \in 1..26 : LowerSeq[n] = text[1]
UpperOf(c) == UpperSeq[CHOOSE n \in 1..26 : LowerSeq[n] = c]

\* C8: a symbol whose trimmed text is one lowercase letter and whose
\* confidence passes is kept as the uppercase letter.
C8_LowercaseKeptAsUppercase ==
    Reconstructed =>
        \A i \in 1..Len(symbols) :
            (/\ IsSingleLower(Trim(symbols[i].text))
             /\ SizeFits(i)
             /\ symbols[i].confidence > CONFIDENCE_THRESHOLD)
                => \E j \in 1..Len(allLetters) :
                      /\ allLetters[j].sym = i
                      /\ allLetters[j].text = <<UpperOf(Trim(symbols[i].text)[1])>>

\* the values of all lanes in order
RECURSIVE Flatten(_)
Flatten(lanes) == IF lanes = <<>> THEN <<>> ELSE Head(lanes) \o Flatten(Tail(lanes))

\* the lanes cl cluster the sorted centres cs, every lane anchored to its
\* first value: a member is less than half the median height above the
\* lane's first value, and a lane starts where that fails
AnchoredToFirst(cl, cs) ==
    /\ Flatten(cl) = SortAscending(cs)
    /\ \A i \in 1..Len(cl) :
          /\ Len(cl[i]) >= 1
          /\ \A j \in 1..Len(cl[i]) :
                /\ cl[i][1] <= cl[i][j]
                /\ 2 * (cl[i][j] - cl[i][1]) < medianHeight
          /\ i > 1 => 2 * (cl[i][1] - cl[i - 1][1]) >= medianHeight

\* C9: a value joins the current lane exactly when it is less than the
\* tolerance (half the median height) above the lane's first value, so no
\* lane spans the tolerance or more.
C9_LaneAnchoredToFirst ==
    (Reconstructed /\ Len(allLetters) >= 2) =>
        /\ AnchoredToFirst(xClusters, [i \in 1..Len(allLetters) |-> allLetters[i].cx])
        /\ AnchoredToFirst(yClusters, [i \in 1..Len(allLetters) |-> allLetters[i].cy])

\* a lane of two different values is followed by a lane whose first value
\* is within the tolerance of the lane's last value
C9_Witness ==
    /\ Reconstructed
    /\ \E i \in 1..Len(xClusters) - 1 :
          LET last == xClusters[i][Len(xClusters[i])]
          IN /\ xClusters[i][1] < last
             /\ 2 * (xClusters[i + 1][1] - last) < medianHeight

\* |coord - num / den| as a fraction
Gap(coord, lane) ==
    [num |-> IF coord * lane.den >= lane.num THEN coord * lane.den - lane.num
             ELSE lane.num - coord * lane.den,
     den |-> lane.den]

\* index n (from 0) is one of the lanes closest to coord
IsClosest(n, coord, lanes) ==
    /\ n \in 0..(Len(lanes) - 1)
    /\ \A m \in 1..Len(lanes) :
          Gap(coord, lanes[n + 1]).num * lanes[m].den
              <= Gap(coord, lanes[m]).num * lanes[n + 1].den

IsMeans(lanes, cl) ==
    /\ Len(lanes) = Len(cl)
    /\ \A i \in 1..Len(cl) :
          lanes[i].num = SeqSum(cl[i]) /\ lanes[i].den = Len(cl[i])

\* C10: a lane's position is the mean of its members, and every glyph in
\* the grid has the column of an x-lane closest to its cx and the row of a
\* y-lane closest to its cy.
C10_ClosestLane ==
    Reconstructed =>
        /\ IsMeans(xLanes, xClusters) /\ IsMeans(yLanes, yClusters)
        /\ \A k \in DOMAIN letterMap :
              /\ IsClosest(k[1], letterMap[k].cx, xLanes)
              /\ IsClosest(k[2], letterMap[k].cy, yLanes)

\* several x-lanes exist and a glyph off the mean of its lane sits in a
\* column beyond the first
C10_Witness ==
    /\ Reconstructed
    /\ \E k \in DOMAIN letterMap :
          /\ k[1] > 0
          /\ Gap(letterMap[k].cx, xLanes[k[1] + 1]).num > 0

(***************************************************************************)
(* The size filter                                                         *)
(***************************************************************************)
\* the symbols that pass the letter and confidence step
Step1Survivors == {i \in 1..Len(symbols) : PassesStep1(symbols[i])}
SymbolHeight(i) == symbols[i].bbox.y1 - symbols[i].bbox.y0

\* m is the height at place floor(n / 2), counted from 0, of the heights of
\* the symbols of S in ascending order
IsMedianOf(m, S) ==
    /\ \E i \in S : SymbolHeight(i) = m
    /\ Cardinality({i \in S : SymbolHeight(i) < m}) <= Cardinality(S) \div 2
    /\ Cardinality({i \in S : SymbolHeight(i) <= m}) > Cardinality(S) \div 2

\* C11: when two or more glyphs pass the letter and confidence step, the
\* glyphs handed to the grid mapper are exactly those of them whose height h
\* has median / 2 <= h <= 3 * median / 2, both limits included, where median
\* is the median height of all the glyphs of that step, and the same median
\* is the one the lanes are clustered with.
C11_SizeFilterInclusive ==
    (Reconstructed /\ Cardinality(Step1Survivors) >= 2) =>
        /\ IsMedianOf(medianHeight, Step1Survivors)
        /\ \A i \in 1..Len(symbols) :
              Kept(i) <=> /\ i \in Step1Survivors
                          /\ 2 * SymbolHeight(i) >= medianHeight
                          /\ 2 * SymbolHeight(i) <= 3 * medianHeight
        /\ Len(allLetters) >= 2 =>
              /\ AnchoredToFirst(xClusters,
                                  [i \in 1..Len(allLetters) |-> allLetters[i].cx])
              /\ AnchoredToFirst(yClusters,
                                  [i \in 1..Len(allLetters) |-> allLetters[i].cy])

\* three glyphs pass the first step: one lies exactly on the lower limit
\* and is kept, one lies above the upper limit and is dropped
C11_Witness ==
    /\ Reconstructed
    /\ Cardinality(Step1Survivors) = 3
    /\ \E i \in Step1Survivors : Kept(i) /\ 2 * SymbolHeight(i) = medianHeight
    /\ \E i \in Step1Survivors : ~Kept(i) /\ 2 * SymbolHeight(i) > 3 * medianHeight

(***************************************************************************)
(* Claims on the extractor followed by the scorer                          *)
(***************************************************************************)
Scored == pc = "scored"

\* the sum of the table values of the letters of a text
RECURSIVE LetterValues(_)
LetterValues(text) ==
    IF text = <<>> THEN 0 ELSE letterScores[Head(text)] + LetterValues(Tail(text))

\* the upper-case text spells the lower-case word w letter by letter
Spells(text, w) ==
    /\ Len(text) = Len(w)
    /\ \A i \in 1..Len(w) :
          \E k \in 1..26 : w[i] = LowerSeq[k] /\ text[i] = UpperSeq[k]

\* the grid is one row of consecutive cells and nothing else; Row is that
\* row as a run record (of any length from 1)
IsRow(g) ==
    /\ DOMAIN g # {}
    /\ LET xs == {c[1] : c \in DOMAIN g}
           ys == {c[2] : c \in DOMAIN g}
       IN /\ Cardinality(ys) = 1
          /\ xs = SetMin(xs)..SetMax(xs)
Row(g) ==
    [horizontal |-> TRUE, line |-> (CHOOSE c \in DOMAIN g : TRUE)[2],
     from |-> SetMin({c[1] : c \in DOMAIN g}),
     to |-> SetMax({c[1] : c \in DOMAIN g})]

\* a row that spells a dictionary word comes back as the only candidate,
\* none of it from the connected pass, and is scored with its letter values
RoundTrip(g) ==
    LET text == RunText(g, Row(g))
    IN /\ ConnectedRuns(g) = {}
       /\ Extracted => wordsData = <<Candidate(g, Row(g))>>
       /\ Scored =>
             /\ outputEl = <<[word |-> text, score |-> LetterValues(text)]>>
             /\ totalScoreEl = TotalLine(LetterValues(text))

\* C12 as stated: every dictionary word, laid out alone in one row, comes
\* back as the one candidate and is scored with the sum of its letter values.
C12_RoundTripAnyWord ==
    (IsRow(grid) /\ \E w \in dictionary : Spells(RunText(grid, Row(grid)), w))
        => RoundTrip(grid)

\* C12: every dictionary word of two or more letters, laid out alone in one
\* row at consecutive columns, comes back from extractWordsFromGrid as the
\* one candidate (through the fallback: the row has no perpendicular
\* neighbour), and processWords lists it with the sum of its letters' table
\* values, which is also the total.
C12_RoundTripTwoOrMore ==
    (/\ IsRow(grid)
     /\ Cardinality(DOMAIN grid) >= 2
     /\ \E w \in dictionary : Spells(RunText(grid, Row(grid)), w))
        => RoundTrip(grid)

\* the row AAB, a dictionary word, has been extracted and scored 1 + 1 + 3
C12_Witness ==
    /\ Scored
    /\ IsRow(grid)
    /\ RunText(grid, Row(grid)) = <<"A", "A", "B">>
    /\ <<"a", "a", "b">> \in dictionary
    /\ outputEl = <<[word |-> <<"A", "A", "B">>, score |-> 5]>>
    /\ totalScoreEl = TotalLine(5)

\* the cells of a run
RunCells(r) == {RunCell(r, i) : i \in 1..(r.to - r.from + 1)}

\* the grid is two horizontal runs in different rows and nothing else, and
\* no cell lies directly above another
TwoSeparateRows(g, r1, r2) ==
    /\ r1 \in RunsAlong(g, TRUE) /\ r2 \in RunsAlong(g, TRUE)
    /\ r1.line # r2.line
    /\ DOMAIN g = RunCells(r1) \cup RunCells(r2)
    /\ \A c \in DOMAIN g : <<c[1], c[2] + 1>> \notin DOMAIN g

\* C13: a grid made of two horizontal runs of length >= 2 in different
\* rows, no cell of one vertically adjacent to a cell of the other, yields
\* no candidate at all, whether or not the rows spell dictionary words.
C13_SeparateRowsRejected ==
    LET rows == RunsAlong(grid, TRUE)
    IN ((Extracted \/ Scored)
        /\ \E r1, r2 \in rows : TwoSeparateRows(grid, r1, r2))
           => /\ wordsData = <<>>
              /\ Scored => outputEl = <<>>

\* two separate rows that spell the dictionary words AB and AAB have been
\* scanned and nothing was returned
C13_Witness ==
    /\ Extracted
    /\ \E r1, r2 \in RunsAlong(grid, TRUE) :
          /\ TwoSeparateRows(grid, r1, r2)
          /\ RunText(grid, r1) = <<"A", "B">>
          /\ RunText(grid, r2) = <<"A", "A", "B">>
          /\ toLowerCase(RunText(grid, r1)) \in dictionary
          /\ toLowerCase(RunText(grid, r2)) \in dictionary
    /\ wordsData = <<>>

(***************************************************************************)
(* Claims on the live-view loop                                            *)
(***************************************************************************)
\* C14: at no time do two runRecognition invocations wait for their OCR
\* job at once: a tick that finds the previous tick's job unfinished is
\* skipped.
C14_AtMostOneInFlight == Len(jobs) <= 1

(***************************************************************************)
(* Claims on processWords                                                  *)
(***************************************************************************)
\* w is the text lower-cased: each capital replaced by its small letter,
\* every other character left as it is
IsLowerCased(w, text) ==
    /\ Len(w) = Len(text)
    /\ \A i \in 1..Len(text) :
          IF text[i] \in UpperAZ
          THEN \E k \in 1..26 : text[i] = UpperSeq[k] /\ w[i] = LowerSeq[k]
          ELSE w[i] = text[i]

\* the candidates (by position) whose lower-cased text is in the dictionary
ValidCandidates ==
    {i \in 1..Len(lastRecognizedWordsData) :
        \E w \in dictionary : IsLowerCased(w, lastRecognizedWordsData[i].word)}

\* the points of a text: the table value of each letter of the table, 0
\* for any other character
RECURSIVE Points(_)
Points(text) ==
    IF text = <<>> THEN 0
    ELSE (IF Head(text) \in DOMAIN letterScores THEN letterScores[Head(text)] ELSE 0)
         + Points(Tail(text))

RECURSIVE ListedPoints(_)
ListedPoints(lines) ==
    IF lines = <<>> THEN 0 ELSE Head(lines).score + ListedPoints(Tail(lines))

\* C15: after processWords the results list holds exactly the candidates
\* whose lower-cased text is in the dictionary (each as often as it is a
\* candidate, the others not at all), each with the sum of the table values
\* of its letters (0 for a character outside the table) as its points, and
\* the total line shows the sum of the listed points; when nothing is
\* listed the line shows the text for no valid words in place of a total.
C15_ScorerCorrect ==
    Scored =>
        /\ \A i \in 1..Len(outputEl) :
              /\ \E j \in ValidCandidates :
                    lastRecognizedWordsData[j].word = outputEl[i].word
              /\ outputEl[i].score = Points(outputEl[i].word)
        /\ \A j \in ValidCandidates :
              Cardinality({i \in 1..Len(outputEl) :
                              outputEl[i].word = lastRecognizedWordsData[j].word})
                = Cardinality({k \in ValidCandidates :
                                 lastRecognizedWordsData[k].word
                                     = lastRecognizedWordsData[j].word})
        /\ totalScoreEl = IF outputEl = <<>> THEN NoValidWords
                          ELSE TotalLine(ListedPoints(outputEl))

\* of two candidates one is dropped and the other, with a character
\* outside the table, is listed with the value of its letter alone
C15_Witness ==
    /\ Scored
    /\ Len(lastRecognizedWordsData) = 2
    /\ outputEl = <<[word |-> <<"A", "?">>, score |-> 1]>>
    /\ totalScoreEl = TotalLine(1)

(***************************************************************************)
(* Crossing words                                                          *)
(***************************************************************************)
\* the run r is among the candidates: its text is a candidate's text, and
\* the candidate's path is the run's own unless another connected run
\* spells the same text (one candidate then stands for both)
Returned(g, r) ==
    \E i \in 1..Len(wordsData) :
        /\ wordsData[i].word = RunText(g, r)
        /\ \/ wordsData[i].path = RunPath(r)
           \/ \E q \in ConnectedRuns(g) :
                 /\ q # r
                 /\ RunText(g, q) = RunText(g, r)
                 /\ wordsData[i].path = RunPath(q)

\* the row CAT crossed at its A by the column ART
CatArt ==
    (<<0, 0>> :> <<"C">>) @@ (<<1, 0>> :> <<"A">>) @@ (<<2, 0>> :> <<"T">>)
    @@ (<<1, 1>> :> <<"R">>) @@ (<<1, 2>> :> <<"T">>)

TilesInARow ==
    LET n == Len(symbols)
        side == symbols[1].bbox.x1 - symbols[1].bbox.x0
        left == SetMin({symbols[i].bbox.x0 : i \in 1..n})
    IN /\ n >= 2
       /\ side > 0
       /\ \A i \in 1..n :
             /\ PassesStep1(symbols[i])
             /\ symbols[i].bbox.x1 - symbols[i].bbox.x0 = side
             /\ symbols[i].bbox.y1 - symbols[i].bbox.y0 = side
             /\ symbols[i].bbox.y0 = symbols[1].bbox.y0
       /\ \A k \in 0..(n - 1) :
             \E i \in 1..n : symbols[i].bbox.x0 = left + k * side

\* the symbol on the k-th tile from the left, k from 0
TileSymbol(k) ==
    LET side == symbols[1].bbox.x1 - symbols[1].bbox.x0
        left == SetMin({symbols[i].bbox.x0 : i \in 1..Len(symbols)})
    IN CHOOSE i \in 1..Len(symbols) : symbols[i].bbox.x0 = left + k * side

\* the letters of the tiles from left to right
TileWord == [k \in 1..Len(symbols) |-> Trim(symbols[TileSymbol(k - 1)].text)[1]]

\* C17: n >= 2 well-read symbols on equal square tiles side by side in one
\* row give a grid of exactly n cells, the cells <<0, 0>> .. <<n - 1, 0>>
\* holding the letters from left to right; extractWordsFromGrid returns
\* exactly the word they spell; and C, A, T with 'cat' in the dictionary
\* are listed as CAT with 5 points, total 5.
C17_SingleRowPipeline ==
    (Reconstructed /\ Len(symbols) >= 1 /\ TilesInARow) =>
        LET n == Len(symbols)
        IN /\ DOMAIN grid = {<<k, 0>> : k \in 0..(n - 1)}
           /\ \A k \in 0..(n - 1) :
                 /\ grid[<<k, 0>>] = <<TileWord[k + 1]>>
                 /\ letterMap[<<k, 0>>].sym = TileSymbol(k)
           /\ (Extracted \/ Scored) =>
                 wordsData = <<[word |-> TileWord,
                                path |-> [k \in 1..n |-> <<k - 1, 0>>]]>>
           /\ (Scored /\ TileWord = <<"C", "A", "T">>
               /\ <<"c", "a", "t">> \in dictionary) =>
                 /\ outputEl = <<[word |-> <<"C", "A", "T">>, score |-> 5]>>
                 /\ totalScoreEl = TotalLine(5)

\* the tiles T, C, A, listed in that order with C leftmost, have been read
\* as CAT and scored 5
C17_Witness ==
    /\ Scored
    /\ Reconstructed
    /\ Len(symbols) = 3
    /\ TilesInARow
    /\ symbols[1].text = <<"T">> /\ symbols[1].bbox.x0 = 32
    /\ symbols[2].text = <<"C">> /\ symbols[2].bbox.x0 = 0
    /\ wordsData = <<[word |-> <<"C", "A", "T">>,
                      path |-> <<<<0, 0>>, <<1, 0>>, <<2, 0>>>>]>>
    /\ outputEl = <<[word |-> <<"C", "A", "T">>, score |-> 5]>>
    /\ totalScoreEl = TotalLine(5)

(***************************************************************************)
(* Size invariance                                                         *)
(***************************************************************************)
\* the factors k = num / den the symbols are scaled by
ScaleFactors == {[num |-> 2, den |-> 1], [num |-> 3, den |-> 1], [num |-> 1, den |-> 2]}

\* scaling by k keeps every coordinate and every centre an integer
ScalesExactly(syms, k) ==
    \A i \in 1..Len(syms) :
        LET b == syms[i].bbox
        IN /\ \A v \in {b.x0, b.y0, b.x1, b.y1} : (v * k.num) % k.den = 0
           /\ ((b.x0 + b.x1) * k.num) % (2 * k.den) = 0
           /\ ((b.y0 + b.y1) * k.num) % (2 * k.den) = 0

\* every bbox coordinate of every symbol multiplied by k
Scaled(syms, k) ==
    [i \in 1..Len(syms) |->
        [syms[i] EXCEPT !.bbox = [x0 |-> (syms[i].bbox.x0 * k.num) \div k.den,
                                  y0 |-> (syms[i].bbox.y0 * k.num) \div k.den,
                                  x1 |-> (syms[i].bbox.x1 * k.num) \div k.den,
                                  y1 |-> (syms[i].bbox.y1 * k.num) \div k.den]]]

ListOrders(n) ==
    {[i \in 1..n |-> IF i = a THEN b ELSE IF i = b THEN a ELSE i] : a, b \in 1..n}

\* the list with the symbol p[i] at place i
Permuted(syms, p) == [i \in 1..Len(syms) |-> syms[p[i]]]

\* the glyphs of a result that reach the mapper (none when fewer than two
\* are left), each as the pair of its symbol, named by p, and its key
PlacedGlyphs(r, p) ==
    IF Len(r.allLetters) < 2 THEN {}
    ELSE {<<p[r.allLetters[j].sym], KeyOf(r.allLetters[j], r.xLanes, r.yLanes)>> :
             j \in 1..Len(r.allLetters)}

\* the state's own result of reconstructGrid
StateResult ==
    [grid |-> grid, letterMap |-> letterMap, allLetters |-> allLetters,
     medianHeight |-> medianHeight, xClusters |-> xClusters,
     yClusters |-> yClusters, xLanes |-> xLanes, yLanes |-> yLanes]

WordSet(data) == {data[i].word : i \in 1..Len(data)}

\* C19: with the symbol list in another order (two of its symbols
\* exchanged, from which every permutation follows) the same glyphs survive
\* and each gets the same grid coordinate; and when no two surviving glyphs
\* share a coordinate, the grid and the set of extracted words are the same.
C19_OrderIndependence ==
    (Extracted /\ symbols # Null) =>
        LET n == Len(symbols)
            identity == [i \in 1..n |-> i]
            placed == PlacedGlyphs(StateResult, identity)
        IN \A p \in ListOrders(n) :
              \A r \in {reconstructGrid(Permuted(symbols, p))} :
                 /\ PlacedGlyphs(r, p) = placed
                 /\ Cardinality(DOMAIN grid) = Cardinality(placed)
                      => /\ r.grid = grid
                         /\ WordSet(extractWordsFromGrid(r.grid)) = WordSet(wordsData)

\* three glyphs of different heights, not listed by height, of which the
\* size filter drops one, have been mapped to different cells and read
C19_Witness ==
    /\ Extracted
    /\ symbols # Null
    /\ Len(symbols) = 3
    /\ SymbolHeight(1) > SymbolHeight(2)
    /\ SymbolHeight(2) < SymbolHeight(3)
    /\ Len(allLetters) = 2
    /\ Cardinality(DOMAIN grid) = 2
    /\ Len(wordsData) = 1

(***************************************************************************)
(* Sparse input                                                            *)
(***************************************************************************)
\* the step-1 glyphs that pass the size step
SizeSurvivors ==
    {i \in Step1Survivors :
        \E j \in Step1Survivors :
            /\ IsMedianOf(SymbolHeight(j), Step1Survivors)
            /\ 2 * SymbolHeight(i) >= SymbolHeight(j)
            /\ 2 * SymbolHeight(i) <= 3 * SymbolHeight(j)}

\* the symbol list is null or empty, or fewer than two glyphs are left
\* after the letter and confidence step or after the size step
SparseInput ==
    \/ symbols = Null
    \/ Len(symbols) = 0
    \/ Cardinality(Step1Survivors) < 2
    \/ Cardinality(SizeSurvivors) < 2

\* C20: on a null, empty or sparse symbol list reconstructGrid returns an
\* empty grid and an empty letterMap; on every grid of fewer than two
\* cells extractWordsFromGrid returns the empty list, and processWords
\* then shows the text for no valid words in the visible results panel;
\* every stage returns on such input: the stage about to run has these
\* values, and the state after it holds them.
C20_GracefulDegradation ==
    /\ (pc = "symbols" /\ SparseInput) =>
          /\ reconstructGrid(symbols).grid = EmptyMap
          /\ reconstructGrid(symbols).letterMap = EmptyMap
    /\ (pc # "symbols" /\ SparseInput) => grid = EmptyMap /\ letterMap = EmptyMap
    /\ (pc = "grid" /\ Cardinality(DOMAIN grid) < 2) =>
          extractWordsFromGrid(grid) = <<>>
    /\ (pc \in {"words", "scored"} /\ Cardinality(DOMAIN grid) < 2) => wordsData = <<>>
    /\ (pc = "words" /\ Cardinality(DOMAIN grid) < 2) =>
          processWords(lastRecognizedWordsData, dictionary).totalScoreEl = NoValidWords
    /\ (pc = "scored" /\ Cardinality(DOMAIN grid) < 2) =>
          /\ outputEl = <<>>
          /\ totalScoreEl = NoValidWords
          /\ resultsVisible

\* two glyphs passed the first step, the size step left one, and the
\* pipeline ended with the text for no valid words
C20_Witness ==
    /\ Scored
    /\ Reconstructed
    /\ Cardinality(Step1Survivors) = 2
    /\ Cardinality(SizeSurvivors) = 1
    /\ grid = EmptyMap
    /\ totalScoreEl = NoValidWords

(***************************************************************************)
(* The order of the scored words                                           *)
(***************************************************************************)
\* the place of a character in the alphabet, whatever its case; 0 for a
\* character that is no letter
AlphabetPlace(c) ==
    IF \E n \in 1..26 : c \in {UpperSeq[n], LowerSeq[n]}
    THEN CHOOSE n \in 1..26 : c \in {UpperSeq[n], LowerSeq[n]}
    ELSE 0

\* a does not come after b in the lexicographic order that ignores case:
\* a begins b, or at the first place where their characters differ in
\* place of the alphabet the character of a is the earlier one
LexAtMost(a, b) ==
    \/ /\ Len(a) <= Len(b)
       /\ \A i \in 1..Len(a) : AlphabetPlace(a[i]) = AlphabetPlace(b[i])
    \/ \E i \in 1..Len(a) :
          /\ i <= Len(b)
          /\ AlphabetPlace(a[i]) < AlphabetPlace(b[i])
          /\ \A j \in 1..(i - 1) : AlphabetPlace(a[j]) = AlphabetPlace(b[j])

\* the candidate list with two of its candidates exchanged
Exchanged(data, a, b) ==
    [i \in 1..Len(data) |-> IF i = a THEN data[b] ELSE IF i = b THEN data[a] ELSE data[i]]

\* C21: the words listed by processWords stand in ascending lexicographic
\* order of their text (case ignored), and the list is the same whatever
\* the order of the candidates (two candidates exchanged, from which every
\* order follows).
C21_ListedInOrder ==
    Scored =>
        /\ \A i \in 1..(Len(outputEl) - 1) :
              LexAtMost(outputEl[i].word, outputEl[i + 1].word)
        /\ \A a, b \in 1..Len(lastRecognizedWordsData) :
              processWords(Exchanged(lastRecognizedWordsData, a, b), dictionary).outputEl
                  = outputEl

\* two valid candidates of different letters came in descending order and
\* are listed the other way round
C21_Witness ==
    /\ Scored
    /\ Len(lastRecognizedWordsData) = 2
    /\ Len(outputEl) = 2
    /\ outputEl[1].word = lastRecognizedWordsData[2].word
    /\ ~LexAtMost(lastRecognizedWordsData[1].word, lastRecognizedWordsData[2].word)

(***************************************************************************)
(* Candidates none of which is a word                                      *)
(***************************************************************************)
\* what the page shows after processWords of an empty candidate list
EmptyListPage == processWords(<<>>, dictionary)

\* C22: when there are candidates but none of their texts is in the
\* dictionary, processWords leaves the page as it does for an empty
\* candidate list: no word listed, the text "No valid words found" in
\* place of a total, the results panel shown.
C22_NoValidWordOutcome ==
    (Scored /\ Len(lastRecognizedWordsData) > 0 /\ ValidCandidates = {}) =>
        /\ outputEl = <<>>
        /\ totalScoreEl = <<"No valid words found">>
        /\ resultsVisible
        /\ outputEl = EmptyListPage.outputEl
        /\ totalScoreEl = EmptyListPage.totalScoreEl
        /\ resultsVisible = EmptyListPage.resultsVisible

\* two candidates were scored under a dictionary that holds words, none of
\* them the text of a candidate
C22_Witness ==
    /\ Scored
    /\ Len(lastRecognizedWordsData) = 2
    /\ dictionary # {}
    /\ ValidCandidates = {}
    /\ totalScoreEl = NoValidWords

(***************************************************************************)
(* The shape of a candidate                                                *)
(***************************************************************************)
\* the path walks a row: each key one column after the one before it
AlongRow(path) ==
    \A j \in 1..(Len(path) - 1) : path[j + 1] = <<path[j][1] + 1, path[j][2]>>
\* the path walks a column: each key one row after the one before it
AlongColumn(path) ==
    \A j \in 1..(Len(path) - 1) : path[j + 1] = <<path[j][1], path[j][2] + 1>>

\* the cells next to the ends of the path along its axis
CellBefore(path) ==
    IF AlongRow(path) THEN <<path[1][1] - 1, path[1][2]>>
    ELSE <<path[1][1], path[1][2] - 1>>
CellAfter(path) ==
    IF AlongRow(path) THEN <<path[Len(path)][1] + 1, path[Len(path)][2]>>
    ELSE <<path[Len(path)][1], path[Len(path)][2] + 1>>

\* C23: every candidate returned by extractWordsFromGrid has as many path
\* keys as letters, two or more; the keys are occupied cells, consecutive
\* along one row or one column; the i-th letter is the grid letter at the
\* i-th key; and the cells before the first and after the last key along
\* the axis are unoccupied.
C23_CandidateWellFormed ==
    Extracted =>
        \A i \in 1..Len(wordsData) :
            LET word == wordsData[i].word
                path == wordsData[i].path
            IN /\ Len(path) = Len(word)
               /\ Len(word) >= 2
               /\ \A j \in 1..Len(path) : path[j] \in DOMAIN grid
               /\ AlongRow(path) \/ AlongColumn(path)
               /\ \A j \in 1..Len(path) : grid[path[j]] = <<word[j]>>
               /\ CellBefore(path) \notin DOMAIN grid
               /\ CellAfter(path) \notin DOMAIN grid

\* a row candidate ends on the last occupied column of the grid, and a
\* column candidate starts below the first occupied row
C23_Witness ==
    /\ Extracted
    /\ \E i \in 1..Len(wordsData) :
          /\ AlongRow(wordsData[i].path)
          /\ \A c \in DOMAIN grid :
                c[1] <= wordsData[i].path[Len(wordsData[i].path)][1]
    /\ \E i \in 1..Len(wordsData) :
          /\ AlongColumn(wordsData[i].path)
          /\ \E c \in DOMAIN grid : c[2] < wordsData[i].path[1][2]

(***************************************************************************)
(* Lanes and the indices assigned from them                                *)
(***************************************************************************)
\* the place, counted from 0, of the cluster that holds the centre
ClusterOf(coord, clusters) ==
    CHOOSE n \in 0..(Len(clusters) - 1) :
        \E j \in 1..Len(clusters[n + 1]) : clusters[n + 1][j] = coord

\* the grid has been filled from the letters that passed both filters
Mapped == Reconstructed /\ xLanes # <<>>

\* C24: every glyph is assigned the column index of the x-lane its
\* x-centre was clustered into and the row index of the y-lane its
\* y-centre was clustered into; so glyphs of different lanes never get
\* the same index, and every lane index is assigned to some glyph.
C24_AssignedOwnLane ==
    Mapped =>
        /\ \A i \in 1..Len(allLetters) :
              /\ findClosestLaneIndex(allLetters[i].cx, xLanes)
                    = ClusterOf(allLetters[i].cx, xClusters)
              /\ findClosestLaneIndex(allLetters[i].cy, yLanes)
                    = ClusterOf(allLetters[i].cy, yClusters)
        /\ \A i, j \in 1..Len(allLetters) :
              /\ ClusterOf(allLetters[i].cx, xClusters) # ClusterOf(allLetters[j].cx, xClusters)
                    => findClosestLaneIndex(allLetters[i].cx, xLanes)
                         # findClosestLaneIndex(allLetters[j].cx, xLanes)
              /\ ClusterOf(allLetters[i].cy, yClusters) # ClusterOf(allLetters[j].cy, yClusters)
                    => findClosestLaneIndex(allLetters[i].cy, yLanes)
                         # findClosestLaneIndex(allLetters[j].cy, yLanes)
        /\ \A n \in 0..(Len(xLanes) - 1) :
              \E i \in 1..Len(allLetters) :
                  findClosestLaneIndex(allLetters[i].cx, xLanes) = n
        /\ \A n \in 0..(Len(yLanes) - 1) :
              \E i \in 1..Len(allLetters) :
                  findClosestLaneIndex(allLetters[i].cy, yLanes) = n

(***************************************************************************)
(* Gaps between the letters of a row                                       *)
(***************************************************************************)
\* the glyphs at the keys ka and kb lie in one grid row, kb's at least
\* two tile widths to the right of ka's, and no glyph of any row has its
\* x-centre between theirs: at least one tile position between them is
\* empty
GapBetween(ka, kb) ==
    /\ ka[2] = kb[2]
    /\ letterMap[kb].cx - letterMap[ka].cx >= 2 * letterMap[ka].width
    /\ letterMap[kb].cx - letterMap[ka].cx >= 2 * letterMap[kb].width
    /\ \A i \in 1..Len(allLetters) :
          ~(letterMap[ka].cx < allLetters[i].cx /\ allLetters[i].cx < letterMap[kb].cx)

\* C25: two letters of one row with an empty tile position between them
\* are never given adjacent grid columns, so no candidate of
\* extractWordsFromGrid runs from the one straight on to the other.
C25_GapsSurvive ==
    Mapped =>
        \A ka, kb \in DOMAIN letterMap :
            GapBetween(ka, kb) =>
                /\ kb[1] # ka[1] + 1
                /\ pc \in {"words", "scored"} =>
                      \A i \in 1..Len(wordsData) :
                          \A j \in 1..(Len(wordsData[i].path) - 1) :
                              ~(wordsData[i].path[j] = ka /\ wordsData[i].path[j + 1] = kb)

(***************************************************************************)
(* Recognition passes, sessions and the interval timer                     *)
(***************************************************************************)
\* the step is the end of a recognition pass (lines 595-603): only there
\* does the list of waiting passes lose its head
PassEnds == jobs # <<>> /\ jobs' = Tail(jobs)

\* C26: a recognition pass whose OCR job completes after currentState has
\* left LIVE_VIEW neither assigns lastRecognizedWordsData nor draws on the
\* debug canvas.
C26_LatePassChangesNothing ==
    [][(PassEnds /\ currentState # "LIVE_VIEW") =>
          /\ lastRecognizedWordsData' = lastRecognizedWordsData
          /\ debugCanvas' = debugCanvas]_vars

\* the step is the Score click: setState(SCORING) from LIVE_VIEW
ScoreStep == currentState = "LIVE_VIEW" /\ currentState' = "SCORING"

\* C27: the list given to processWords on entering SCORING is the work of
\* a pass started and completed in the current LIVE_VIEW session (or is
\* still the empty list no pass has assigned); what an earlier session
\* left in lastRecognizedWordsData is never scored.
C27_ScoresCurrentSession ==
    [][ScoreStep => lastRecognizedBy \in {0, liveViewIntervalId}]_vars

\* C28: at most one interval timer is active, and one is active only
\* while currentState is LIVE_VIEW.
C28_TimerInvariant ==
    /\ Cardinality(activeIntervals) <= 1
    /\ activeIntervals # {} => currentState = "LIVE_VIEW"

\* a second session is live with its own timer, the first one's cleared,
\* while a pass of the first session still waits for its OCR job
C28_Witness ==
    /\ currentState = "LIVE_VIEW"
    /\ liveViewIntervalId = 2
    /\ activeIntervals = {2}
    /\ jobs # <<>> /\ Head(jobs) = 1

(***************************************************************************)
(* The cumulative total of the single-line scanner                         *)
(***************************************************************************)
\* the letters A-Z of a text, small letters taken as capitals, in order
RECURSIVE LettersOf(_)
LettersOf(text) ==
    IF text = <<>> THEN <<>>
    ELSE LET c == Head(text)
         IN (IF c \in UpperAZ THEN <<c>>
             ELSE IF \E n \in 1..26 : LowerSeq[n] = c THEN <<UpperOf(c)>>
             ELSE <<>>) \o LettersOf(Tail(text))

\* the scanned words that the dictionary holds (it does not change once
\* the scanner runs, so a word is in it now iff it was when first scanned)
ScannedValid ==
    {w \in scannedWords : \E d \in dictionary : IsLowerCased(d, w)}

RECURSIVE SumOfPoints(_)
SumOfPoints(words) ==
    IF words = {} THEN 0
    ELSE LET w == CHOOSE x \in words : TRUE
         IN Points(w) + SumOfPoints(words \ {w})

\* C29: totalScore is the sum of the letter scores of the distinct scanned
\* words that are in the dictionary, each counted once; and a text whose
\* letters are fewer than 2, or spell a word already scanned, changes
\* neither scannedWords nor totalScore.
C29_CumulativeTotal ==
    pc = "scan" =>
        /\ totalScore = SumOfPoints(ScannedValid)
        /\ \A text \in ScanTexts :
              (Len(LettersOf(text)) < 2 \/ LettersOf(text) \in scannedWords) =>
                  \A r \in {processRecognizedText(text,
                               [scannedWords |-> scannedWords, totalScore |-> totalScore,
                                outputEl |-> outputEl, totalScoreEl |-> totalScoreEl,
                                resultsVisible |-> resultsVisible], dictionary)} :
                      /\ r.scannedWords = scannedWords
                      /\ r.totalScore = totalScore

\* words in and out of the dictionary have been scanned, the total is that
\* of the valid ones, and a text of the model spells one of them again in
\* other characters
C29_Witness ==
    /\ pc = "scan"
    /\ Cardinality(scannedWords) >= 3
    /\ Cardinality(ScannedValid) = 2
    /\ totalScore = 8
    /\ \E text \in ScanTexts : text \notin scannedWords /\ LettersOf(text) \in scannedWords

====
